---- MODULE Spec2Model ----
(***************************************************************************)
(* Model of the canastracounter HTTP server (src/server/main.go; the       *)
(* top-level src/main.go has the same five API handlers over the same      *)
(* schema, with the games column named maximum_score).  The state is the   *)
(* SQLite database created by initDB (tables players, games, game_players) *)
(* and the frame of every request                                          *)
(* handler that is between two SQL statements.  net/http runs each request *)
(* in its own goroutine; SQLite executes one statement at a time, so one   *)
(* SQL statement is one atomic step and a handler with two statements      *)
(* (/games/update-score) can be interleaved between them.  Writing the     *)
(* response touches no shared state, so it commutes with every other step: *)
(* the model lets a handler that has written its response return before    *)
(* the next statement of any handler runs.  Failures of the storage layer  *)
(* itself (I/O errors, a locked database) are not modelled: a statement    *)
(* fails only by violating a constraint of the schema or by finding no row.*)
(*                                                                         *)
(* Variables whose comment says "history" are not program state: they      *)
(* record what requests were issued and what was answered, so that the     *)
(* properties can speak about responses.                                   *)
(***************************************************************************)
EXTENDS Integers, Sequences, FiniteSets, Bags, TLC

\* ---------------------------------------------------------------- bounds
MaxGameId == 1      \* a request's game_id is in 0..MaxGameId (0 = field absent)
MaxPlayerId == 1    \* a request's player_id is in 0..MaxPlayerId
MaxPlayers == 2     \* rows in players
MaxGames == 2       \* rows in games
MaxRows == 2        \* rows in game_players
MaxScore == 1       \* |score| of a game_players row
MaxDelta == 1       \* deltas are -1 and 1..MaxDelta
MaxPoints == 1      \* ceilings are -1..MaxPoints
MaxNameLen == 1     \* length of a player name
MaxHandlers == 2    \* request handlers that can be between two statements
MaxQueryLen == 1    \* length of the game_id query parameter

GameIds == 0..MaxGameId
PlayerIds == 0..MaxPlayerId
Deltas == {-1} \cup 1..MaxDelta
Ceilings == (-1)..MaxPoints
Chars == {" ", "a"}
Names == UNION {[1..n -> Chars] : n \in 0..MaxNameLen}
\* values of the game_id query parameter: absent/empty, digits, not a number
Digits == <<"0", "1", "2", "3", "4", "5", "6", "7", "8", "9">>
QueryChars == {Digits[g + 1] : g \in GameIds} \cup {"x"}
Queries == UNION {[1..n -> QueryChars] : n \in 0..MaxQueryLen}
Methods == {"GET", "POST", "PUT"}
Keys == GameIds \X PlayerIds  \* <<game_id, player_id>>

NoScore == -1000    \* stands for "no value" in integer fields of history records

VARIABLES
    players,        \* table players: set of [id, name]
    games,          \* table games: set of [id, max_points]
    game_players,   \* table game_players: set of [game_id, player_id, score]
    seq_players,    \* sqlite_sequence entry of players (AUTOINCREMENT)
    seq_games,      \* sqlite_sequence entry of games (AUTOINCREMENT)
    foreign_keys,   \* whether the connections enforce FOREIGN KEY clauses
    inflight,       \* bag of /games/update-score handlers that have run their
                    \* UPDATE and not yet their SELECT: [requestData, before],
                    \* before (history) = score the row had just before the UPDATE
    resp,           \* the response being written, with its request (NoResponse
                    \* when no handler is writing one)
    playerLog,      \* history: <<id, name>> of every user_created response
    gameLog,        \* history: <<id, max_points>> of every game_created response
    attachLog,      \* history: bag of the <<game_id, player_id>> of every
                    \*          game_player_created response
    completed       \* history: per key, sum of the deltas of the finished
                    \*          update-score calls whose UPDATE found the row

vars == <<players, games, game_players, seq_players, seq_games, foreign_keys,
          inflight, resp, playerLog, gameLog, attachLog, completed>>

\* ------------------------------------------------------------- requests
\* A request as far as the handler has read it: the method, whether the body
\* is well-formed JSON of the right types, the decoded fields (a field absent
\* from the JSON keeps its zero value) and the game_id query parameter.
Request(method, json_ok, name, max_points, game_id, player_id, score, query) ==
    [method |-> method, json_ok |-> json_ok, name |-> name, max_points |-> max_points,
     game_id |-> game_id, player_id |-> player_id, score |-> score, query |-> query]

NoRequest == Request("GET", TRUE, <<>>, 0, 0, 0, 0, <<>>)

\* A response: the route, the request, the status code and the JSON fields.
Response(route, req, status, message, success, id, new_score, data, before) ==
    [route |-> route, req |-> req, status |-> status, message |-> message,
     success |-> success, id |-> id, new_score |-> new_score, data |-> data,
     before |-> before]

NoResponse == Response("none", NoRequest, 0, "", FALSE, NoScore, NoScore, <<>>, NoScore)

\* respondWithError(w, 500)
respondWithError(route, req, statusCode) ==
    Response(route, req, statusCode, "internal_server_error", FALSE, NoScore, NoScore,
             <<>>, NoScore)

\* the method check every handler starts with; the body has not been read
MethodNotAllowed(route, method) ==
    Response(route, Request(method, TRUE, <<>>, 0, 0, 0, 0, <<>>), 405,
             "method_not_allowed", FALSE, NoScore, NoScore, <<>>, NoScore)

\* json.NewDecoder(r.Body).Decode(&requestData) returned an error
InvalidJson(route, method) ==
    Response(route, Request(method, FALSE, <<>>, 0, 0, 0, 0, <<>>), 400,
             "invalid_json", FALSE, NoScore, NoScore, <<>>, NoScore)

\* ------------------------------------------------------------ the store
Max(S) == IF S = {} THEN 0 ELSE CHOOSE x \in S : \A y \in S : y <= x

\* initDB: the schema is created empty; the DSN "./canastra.db" sets no
\* _foreign_keys parameter, so enforcement is whatever the SQLite build
\* defaults to (off unless built with the sqlite_foreign_keys tag).
Init ==
    /\ players = {}
    /\ games = {}
    /\ game_players = {}
    /\ seq_players = 0
    /\ seq_games = 0
    /\ foreign_keys \in BOOLEAN
    /\ inflight = EmptyBag
    /\ resp = NoResponse
    /\ playerLog = <<>>
    /\ gameLog = <<>>
    /\ attachLog = EmptyBag
    /\ completed = [k \in Keys |-> 0]

\* ---------------------------------------------------------- SQL statements
\* rowid chosen for a table with INTEGER PRIMARY KEY AUTOINCREMENT: one more
\* than the largest rowid the table has ever held (sqlite_sequence)
AutoincrementId(table, seq) == Max({r.id : r \in table} \cup {seq}) + 1

\* rowid chosen for game_players, a table without AUTOINCREMENT: one more than
\* the largest rowid in the table; rows are never deleted, so the rowids in
\* use are 1..number of rows
NextRowid(table) == Cardinality(table) + 1

\* variant: the players table declared with name TEXT NOT NULL UNIQUE
InsertPlayerErrUniqueName(id, name) == \E r \in players : r.id = id \/ r.name = name

\* INSERT INTO players (name) VALUES (?) fails when the PRIMARY KEY id is
\* taken; name is NOT NULL and carries no other constraint
InsertPlayerErr(id, name) == \E r \in players : r.id = id

\* variant: the games table declared with CHECK (max_points > 0)
InsertGameErrPositive(id, max_points) == (\E r \in games : r.id = id) \/ max_points <= 0

\* INSERT INTO games (max_points) VALUES (?) fails when the PRIMARY KEY id is
\* taken; max_points is NOT NULL and carries no other constraint
InsertGameErr(id, max_points) == \E r \in games : r.id = id

\* INSERT INTO game_players (player_id, game_id) VALUES (?, ?) fails when the
\* PRIMARY KEY (player_id, game_id) is taken or, on a connection that enforces
\* foreign keys, when the player or the game does not exist
\* variant: the game_players table declared without its PRIMARY KEY
PrimaryKeyTakenNoKey(game_id, player_id) == FALSE

PrimaryKeyTaken(game_id, player_id) ==
    \E r \in game_players : r.game_id = game_id /\ r.player_id = player_id

ForeignKeyMissing(game_id, player_id) ==
    \/ ~ \E p \in players : p.id = player_id
    \/ ~ \E g \in games : g.id = game_id

InsertGamePlayerErr(game_id, player_id) ==
    \/ PrimaryKeyTaken(game_id, player_id)
    \/ foreign_keys /\ ForeignKeyMissing(game_id, player_id)

\* the row INSERT INTO game_players creates: score takes its DEFAULT 0
NewGamePlayer(game_id, player_id) ==
    [game_id |-> game_id, player_id |-> player_id, score |-> 0]

\* rows matched by WHERE game_id = ? AND player_id = ?
Matching(game_id, player_id) ==
    {r \in game_players : r.game_id = game_id /\ r.player_id = player_id}

\* variant: the update is refused once the row's score has reached the
\* max_points of its game
UpdateScoreErrCeiling(delta, game_id, player_id) ==
    \E r \in game_players, g \in games :
        /\ r.game_id = game_id /\ r.player_id = player_id
        /\ g.id = game_id
        /\ r.score >= g.max_points

\* UPDATE game_players SET score = score + ? ... fails on no row and no value:
\* the schema puts no constraint on score and nothing compares it with the
\* max_points of the game
UpdateScoreErr(delta, game_id, player_id) == FALSE

\* variant: SET score = ?, the delta overwrites the score
UpdateScoreOverwrite(delta, game_id, player_id) ==
    {IF r.game_id = game_id /\ r.player_id = player_id
        THEN [r EXCEPT !.score = delta]
        ELSE r : r \in game_players}

\* variant: an upsert, the row is created when no row matches
UpdateScoreUpsert(delta, game_id, player_id) ==
    IF \E r \in game_players : r.game_id = game_id /\ r.player_id = player_id
    THEN {IF r.game_id = game_id /\ r.player_id = player_id
             THEN [r EXCEPT !.score = r.score + delta]
             ELSE r : r \in game_players}
    ELSE game_players \cup {[game_id |-> game_id, player_id |-> player_id, score |-> 0]}

\* variant: WHERE player_id = ? only, the game is not part of the condition
UpdateScoreWholePlayer(delta, game_id, player_id) ==
    {IF r.player_id = player_id
        THEN [r EXCEPT !.score = r.score + delta]
        ELSE r : r \in game_players}

\* variant: WHERE game_id = ? only, the player is not part of the condition
UpdateScoreWholeGame(delta, game_id, player_id) ==
    {IF r.game_id = game_id
        THEN [r EXCEPT !.score = r.score + delta]
        ELSE r : r \in game_players}

\* UPDATE game_players SET score = score + ? WHERE game_id = ? AND player_id = ?
UpdateScore(delta, game_id, player_id) ==
    {IF r.game_id = game_id /\ r.player_id = player_id
        THEN [r EXCEPT !.score = r.score + delta]
        ELSE r : r \in game_players}

\* The game_id query parameter is bound as TEXT and compared with an INTEGER
\* column: SQLite converts the text to a number when it is a well-formed
\* integer literal, and otherwise the comparison is false for every row.
DigitValue(c) ==
    IF \E d \in 0..9 : Digits[d + 1] = c
    THEN CHOOSE d \in 0..9 : Digits[d + 1] = c
    ELSE -1

RECURSIVE NumericValue(_)
NumericValue(q) ==
    IF Len(q) = 0 THEN -1
    ELSE LET d == DigitValue(q[Len(q)])
             front == SubSeq(q, 1, Len(q) - 1)
         IN IF d < 0 THEN -1
            ELSE IF Len(front) = 0 THEN d
            ELSE IF NumericValue(front) < 0 THEN -1
            ELSE 10 * NumericValue(front) + d

\* SELECT game_id, player_id, score FROM game_players WHERE game_id = ?
\* scanned row by row into []GamePlayer; the order is the store's (no ORDER BY)
RECURSIVE ScanRows(_)
ScanRows(rows) ==
    IF rows = {} THEN <<>>
    ELSE LET r == CHOOSE x \in rows : TRUE
         IN <<r>> \o ScanRows(rows \ {r})

\* variant: the WHERE clause is missing
SelectByGameAll(query) == game_players

SelectByGame(query) == {r \in game_players : r.game_id = NumericValue(query)}

\* ----------------------------------------------------------------- handlers
\* mux.HandleFunc("/", ...): answers 200 "all good" whatever the request
Health ==
    /\ resp = NoResponse
    /\ resp' = Response("/", NoRequest, 200, "all good", TRUE, NoScore, NoScore, <<>>, NoScore)
    /\ UNCHANGED <<players, games, game_players, seq_players, seq_games, foreign_keys,
                   inflight, playerLog, gameLog, attachLog, completed>>

\* POST /players/add; names = the names requests carry, limit = the size at
\* which the model stops growing the table
PlayersAdd(names, limit) ==
    \E m \in Methods, ok \in BOOLEAN, name \in names :
      LET req == Request(m, ok, name, 0, 0, 0, 0, <<>>)
          id == AutoincrementId(players, seq_players)
      IN /\ resp = NoResponse
         /\ IF m # "POST" THEN
                /\ resp' = MethodNotAllowed("/players/add", m)
                /\ UNCHANGED <<players, seq_players, playerLog>>
            ELSE IF ~ok THEN
                /\ resp' = InvalidJson("/players/add", m)
                /\ UNCHANGED <<players, seq_players, playerLog>>
            ELSE IF name = <<>> THEN
                /\ resp' = Response("/players/add", req, 400,
                                    "validation_error: name can't be blank", FALSE,
                                    NoScore, NoScore, <<>>, NoScore)
                /\ UNCHANGED <<players, seq_players, playerLog>>
            ELSE IF InsertPlayerErr(id, name) THEN
                /\ resp' = respondWithError("/players/add", req, 500)
                /\ UNCHANGED <<players, seq_players, playerLog>>
            ELSE
                /\ Cardinality(players) < limit
                /\ players' = players \cup {[id |-> id, name |-> name]}
                /\ seq_players' = id
                /\ resp' = Response("/players/add", req, 201, "user_created", TRUE,
                                    id, NoScore, <<>>, NoScore)
                /\ playerLog' = Append(playerLog, <<id, name>>)
         /\ UNCHANGED <<games, game_players, seq_games, foreign_keys, inflight,
                        gameLog, attachLog, completed>>

\* POST /games/new
GamesNew(ceilings, limit) ==
    \E m \in Methods, ok \in BOOLEAN, max_points \in ceilings :
      LET req == Request(m, ok, <<>>, max_points, 0, 0, 0, <<>>)
          id == AutoincrementId(games, seq_games)
      IN /\ resp = NoResponse
         /\ IF m # "POST" THEN
                /\ resp' = MethodNotAllowed("/games/new", m)
                /\ UNCHANGED <<games, seq_games, gameLog>>
            ELSE IF ~ok THEN
                /\ resp' = InvalidJson("/games/new", m)
                /\ UNCHANGED <<games, seq_games, gameLog>>
            ELSE IF InsertGameErr(id, max_points) THEN
                /\ resp' = respondWithError("/games/new", req, 500)
                /\ UNCHANGED <<games, seq_games, gameLog>>
            ELSE
                /\ Cardinality(games) < limit
                /\ games' = games \cup {[id |-> id, max_points |-> max_points]}
                /\ seq_games' = id
                /\ resp' = Response("/games/new", req, 201, "game_created", TRUE,
                                    id, NoScore, <<>>, NoScore)
                /\ gameLog' = Append(gameLog, <<id, max_points>>)
         /\ UNCHANGED <<players, game_players, seq_players, foreign_keys, inflight,
                        playerLog, attachLog, completed>>

\* GET /games?game_id=...
Games ==
    \E m \in Methods, query \in Queries :
      LET req == Request(m, TRUE, <<>>, 0, 0, 0, 0, query)
      IN /\ resp = NoResponse
         /\ IF m # "GET" THEN
                resp' = MethodNotAllowed("/games", m)
            ELSE
                resp' = Response("/games", req, 201, "", FALSE, NoScore, NoScore,
                                 ScanRows(SelectByGame(query)), NoScore)
         /\ UNCHANGED <<players, games, game_players, seq_players, seq_games, foreign_keys,
                        inflight, playerLog, gameLog, attachLog, completed>>

\* POST /games/players/add; limit = the size at which the model stops growing
\* the table.  The response's before field (history) tells whether the pair
\* had a row when the INSERT ran.
GamesPlayersAdd(limit) ==
    \E m \in Methods, ok \in BOOLEAN, game_id \in GameIds, player_id \in PlayerIds :
      LET req == Request(m, ok, <<>>, 0, game_id, player_id, 0, <<>>)
          row == NewGamePlayer(game_id, player_id)
          taken == IF PrimaryKeyTaken(game_id, player_id) THEN 1 ELSE 0
      IN /\ resp = NoResponse
         /\ IF m # "POST" THEN
                /\ resp' = MethodNotAllowed("/games/players/add", m)
                /\ UNCHANGED <<game_players, attachLog>>
            ELSE IF ~ok THEN
                /\ resp' = InvalidJson("/games/players/add", m)
                /\ UNCHANGED <<game_players, attachLog>>
            ELSE IF InsertGamePlayerErr(game_id, player_id) THEN
                /\ resp' = [respondWithError("/games/players/add", req, 500)
                                EXCEPT !.before = taken]
                /\ UNCHANGED <<game_players, attachLog>>
            ELSE
                /\ Cardinality(game_players) < limit
                /\ game_players' = game_players \cup {row}
                /\ resp' = Response("/games/players/add", req, 201, "game_player_created",
                                    TRUE, NextRowid(game_players), NoScore, <<>>, taken)
                /\ attachLog' = attachLog (+) SetToBag({<<game_id, player_id>>})
         /\ UNCHANGED <<players, games, seq_players, seq_games, foreign_keys, inflight,
                        playerLog, gameLog, completed>>

\* PUT /games/update-score, up to and including its UPDATE statement.  The
\* before field (history) of a frame or response is the score the row had
\* when the UPDATE ran, NoScore when the UPDATE found no row.
GamesUpdateScore ==
    \E m \in Methods, ok \in BOOLEAN, game_id \in GameIds, player_id \in PlayerIds, score \in Deltas :
      LET req == Request(m, ok, <<>>, 0, game_id, player_id, score, <<>>)
          hit == Matching(game_id, player_id)
          before == IF hit = {} THEN NoScore ELSE (CHOOSE r \in hit : TRUE).score
      IN /\ resp = NoResponse
         /\ IF m # "PUT" THEN
                /\ resp' = MethodNotAllowed("/games/update-score", m)
                /\ UNCHANGED <<game_players, inflight>>
            ELSE IF ~ok THEN
                /\ resp' = InvalidJson("/games/update-score", m)
                /\ UNCHANGED <<game_players, inflight>>
            ELSE IF UpdateScoreErr(score, game_id, player_id) THEN
                /\ resp' = [respondWithError("/games/update-score", req, 500)
                                EXCEPT !.before = before]
                /\ UNCHANGED <<game_players, inflight>>
            ELSE
                /\ BagCardinality(inflight) < MaxHandlers
                /\ \A r \in hit : r.score + score \in (-MaxScore)..MaxScore
                /\ game_players' = UpdateScore(score, game_id, player_id)
                /\ inflight' = inflight (+) SetToBag({[requestData |-> req, before |-> before]})
                /\ UNCHANGED resp
         /\ UNCHANGED <<players, games, seq_players, seq_games, foreign_keys,
                        playerLog, gameLog, attachLog, completed>>

\* PUT /games/update-score, from its SELECT statement to the response
GamesUpdateScoreSelect ==
    \E h \in BagToSet(inflight) :
      LET req == h.requestData
          hit == Matching(req.game_id, req.player_id)
      IN /\ resp = NoResponse
         /\ IF hit = {} THEN
                resp' = respondWithError("/games/update-score", req, 500)
            ELSE
                resp' = Response("/games/update-score", req, 201, "game_updated", TRUE,
                                 NoScore, (CHOOSE r \in hit : TRUE).score, <<>>, h.before)
         /\ completed' = IF h.before = NoScore THEN completed
                         ELSE [completed EXCEPT ![<<req.game_id, req.player_id>>] = @ + req.score]
         /\ inflight' = inflight (-) SetToBag({h})
         /\ UNCHANGED <<players, games, game_players, seq_players, seq_games, foreign_keys,
                        playerLog, gameLog, attachLog>>

\* the handler returns after writing its response
Return ==
    /\ resp # NoResponse
    /\ resp' = NoResponse
    /\ UNCHANGED <<players, games, game_players, seq_players, seq_games, foreign_keys,
                   inflight, playerLog, gameLog, attachLog, completed>>

\* ------------------------------------------------------------ specifications
\* The whole server.
Next ==
    \/ Health
    \/ PlayersAdd(Names, MaxPlayers)
    \/ GamesNew(Ceilings, MaxGames)
    \/ Games
    \/ GamesPlayersAdd(MaxRows)
    \/ GamesUpdateScore
    \/ GamesUpdateScoreSelect
    \/ Return

Spec == Init /\ [][Next]_vars

\* The whole server with every name and ceiling, and a score ledger that
\* stays empty: the player directory and the game sessions.
NextDirectory ==
    \/ Health
    \/ PlayersAdd(Names, MaxPlayers)
    \/ GamesNew(Ceilings, MaxGames)
    \/ Games
    \/ GamesPlayersAdd(0)
    \/ GamesUpdateScore
    \/ GamesUpdateScoreSelect
    \/ Return

SpecDirectory == Init /\ [][NextDirectory]_vars

\* The whole server with one player and one game to register (a name is "a"
\* or empty): the score ledger under every interleaving of its handlers.
NextLedger ==
    \/ Health
    \/ PlayersAdd({<<>>, <<"a">>}, 1)
    \/ GamesNew({MaxPoints}, 1)
    \/ Games
    \/ GamesPlayersAdd(MaxRows)
    \/ GamesUpdateScore
    \/ GamesUpdateScoreSelect
    \/ Return

SpecLedger == Init /\ [][NextLedger]_vars

\* ------------------------------------------------------------------ claims
Key(r) == <<r.game_id, r.player_id>>

RowsOf(k) == {r \in game_players : Key(r) = k}

\* the frames in flight whose UPDATE found the row of key k
FramesOn(k) ==
    {h \in BagToSet(inflight) :
        <<h.requestData.game_id, h.requestData.player_id>> = k /\ h.before # NoScore}

RECURSIVE SumDeltas(_)
SumDeltas(frames) ==
    IF frames = {} THEN 0
    ELSE LET h == CHOOSE x \in frames : TRUE
         IN CopiesIn(h, inflight) * h.requestData.score + SumDeltas(frames \ {h})

UpdateAnswered ==
    /\ resp.route = "/games/update-score"
    /\ resp.req.method = "PUT"
    /\ resp.req.json_ok

AttachAnswered ==
    /\ resp.route = "/games/players/add"
    /\ resp.req.method = "POST"
    /\ resp.req.json_ok

\* C1: the score of an attached pair is the sum of the deltas of all the
\* update-score calls applied to it, whatever the interleaving: the stored
\* score is the sum of the deltas of the finished calls plus the deltas of the
\* calls that have run their UPDATE and not yet answered; with no call in
\* flight it is exactly the sum of the deltas of the finished calls.
C1_NoLostUpdates ==
    \A r \in game_players :
        /\ r.score = completed[Key(r)] + SumDeltas(FramesOn(Key(r)))
        /\ FramesOn(Key(r)) = {} => r.score = completed[Key(r)]

\* two calls on one row ran interleaved (the answer of the last one shows the
\* other's delta) and both have finished
C1_Witness ==
    /\ inflight = EmptyBag
    /\ UpdateAnswered /\ resp.success
    /\ resp.before # NoScore
    /\ resp.new_score # resp.before + resp.req.score
    /\ \E r \in game_players :
        /\ Key(r) = <<resp.req.game_id, resp.req.player_id>>
        /\ r.score = completed[Key(r)]

\* C2: the new_score a successful update-score call returns is the score the
\* row had just before the call's UPDATE plus the call's delta (stated for the
\* rows of an existing game and an existing player).
C2_NewScoreIsBeforePlusDelta ==
    (/\ UpdateAnswered /\ resp.success /\ resp.before # NoScore
     /\ ~ForeignKeyMissing(resp.req.game_id, resp.req.player_id))
        => resp.new_score = resp.before + resp.req.score

\* C3: a pair has at most one row and at most one game_player_created answer,
\* and an attach of an existing game and player succeeds exactly when the pair
\* had no row: of two such calls the first succeeds and the second fails.
C3_AttachOnce ==
    /\ \A r1, r2 \in game_players : Key(r1) = Key(r2) => r1 = r2
    /\ \A k \in Keys : CopiesIn(k, attachLog) = Cardinality(RowsOf(k))
    /\ \A k \in Keys : CopiesIn(k, attachLog) <= 1
    /\ (AttachAnswered /\ ~ForeignKeyMissing(resp.req.game_id, resp.req.player_id))
          => /\ resp.success <=> resp.before = 0
             /\ ~resp.success => resp.message = "internal_server_error"

\* the second attach of an existing game and player has been refused
C3_Witness ==
    /\ AttachAnswered
    /\ ~ForeignKeyMissing(resp.req.game_id, resp.req.player_id)
    /\ ~resp.success
    /\ resp.before = 1
    /\ CopiesIn(<<resp.req.game_id, resp.req.player_id>>, attachLog) = 1

\* C4: every game_players row refers to an existing game and an existing
\* player (an attach of a missing game or player fails and inserts nothing).
C4_ReferentialIntegrity ==
    \A r \in game_players : ~ForeignKeyMissing(r.game_id, r.player_id)

\* C5: an update-score call on a pair that was never attached is answered
\* with a failure and leaves the pair without a row.
C5_UpdateUnattachedFails ==
    (UpdateAnswered /\ CopiesIn(<<resp.req.game_id, resp.req.player_id>>, attachLog) = 0)
        => /\ ~resp.success
           /\ resp.status = 500
           /\ RowsOf(<<resp.req.game_id, resp.req.player_id>>) = {}

\* such a call has been answered while other pairs have rows
C5_Witness ==
    /\ UpdateAnswered
    /\ CopiesIn(<<resp.req.game_id, resp.req.player_id>>, attachLog) = 0
    /\ resp.message = "internal_server_error"
    /\ game_players # {}

IsBlank(name) == \A i \in 1..Len(name) : name[i] = " "

\* C6: no stored player has an empty or blank (spaces only) name: a
\* registration with such a name is refused and inserts nothing.
C6_NoBlankName ==
    \A p \in players : ~IsBlank(p.name)

\* C7: every user_created answer carries an identity no other such answer
\* carries, that identity is the row inserted with the request's name, and a
\* request with a non-empty name succeeds also when the name is already stored.
C7_FreshPlayerId ==
    /\ \A i, j \in 1..Len(playerLog) : i # j => playerLog[i][1] # playerLog[j][1]
    /\ \A i \in 1..Len(playerLog) :
          {p \in players : p.id = playerLog[i][1]}
              = {[id |-> playerLog[i][1], name |-> playerLog[i][2]]}
    /\ (resp.route = "/players/add" /\ resp.req.method = "POST" /\ resp.req.json_ok
          /\ resp.req.name # <<>>)
          => /\ resp.success /\ resp.message = "user_created"
             /\ playerLog[Len(playerLog)] = <<resp.id, resp.req.name>>

\* two registrations with the same name have succeeded
C7_Witness ==
    /\ Len(playerLog) >= 2
    /\ playerLog[1][2] = playerLog[2][2]
    /\ resp.message = "user_created"

\* C8: a create-game request succeeds for every ceiling, every game_created
\* answer carries an identity no other such answer carries, and the game of
\* that identity carries the request's ceiling in every later state.
C8_GameCeilingKept ==
    /\ \A i, j \in 1..Len(gameLog) : i # j => gameLog[i][1] # gameLog[j][1]
    /\ \A i \in 1..Len(gameLog) :
          {g \in games : g.id = gameLog[i][1]}
              = {[id |-> gameLog[i][1], max_points |-> gameLog[i][2]]}
    /\ (resp.route = "/games/new" /\ resp.req.method = "POST" /\ resp.req.json_ok)
          => /\ resp.success /\ resp.message = "game_created"
             /\ gameLog[Len(gameLog)] = <<resp.id, resp.req.max_points>>

\* a game with a negative ceiling was created, then a second game, and other
\* requests have been served since
C8_Witness ==
    /\ Len(gameLog) = 2
    /\ gameLog[1][2] < 0
    /\ gameLog[2][2] = 0
    /\ resp.route = "/games/update-score"

\* the decimal text of a game id below 10
DigitText(g) == <<Digits[g + 1]>>

Entries(data) == {data[i] : i \in 1..Len(data)}

RowCreated(r) ==
    /\ r.score = 0
    /\ resp'.route = "/games/players/add" /\ resp'.success
    /\ <<resp'.req.game_id, resp'.req.player_id>> = Key(r)

ScoreChanged(old, new) ==
    \E h \in BagToSet(inflight') :
        /\ CopiesIn(h, inflight') = CopiesIn(h, inflight) + 1
        /\ <<h.requestData.game_id, h.requestData.player_id>> = Key(old)
        /\ h.before = old.score
        /\ new.score = old.score + h.requestData.score

RowLifecycle ==
    /\ \A new \in game_players' :
          (\A old \in game_players : Key(old) # Key(new)) => RowCreated(new)
    /\ \A old \in game_players : \E new \in game_players' : Key(new) = Key(old)
    /\ \A old \in game_players, new \in game_players' :
          (Key(new) = Key(old) /\ new.score # old.score) => ScoreChanged(old, new)

\* C10: in every step, a row that appears is the row of the pair a
\* game_player_created answer names and has score 0, a row whose score changes
\* changes by the delta of an update-score call on its pair that has just run
\* its UPDATE, and no row disappears.
C10_RowLifecycle == [][RowLifecycle]_vars

\* a row was created and its score has since been changed
C10_Witness ==
    \E r \in game_players :
        /\ r.score # 0
        /\ CopiesIn(Key(r), attachLog) = 1
        /\ completed[Key(r)] = r.score

\* C11: the ceiling of the game is never enforced: an update-score call whose
\* UPDATE found the row of its pair is answered game_updated, whatever the
\* row's score and the game's max_points are.
C11_CeilingNotEnforced ==
    (UpdateAnswered /\ resp.before # NoScore)
        => /\ resp.success
           /\ resp.status = 201
           /\ resp.message = "game_updated"

\* a delta has been accepted on a row whose score had reached the ceiling of
\* its game
C11_Witness ==
    /\ UpdateAnswered /\ resp.success
    /\ resp.before # NoScore
    /\ \E g \in games :
        /\ g.id = resp.req.game_id
        /\ resp.before >= g.max_points
    /\ \E p \in players : p.id = resp.req.player_id

\* C12: an update-score call is answered game_updated only if its UPDATE found
\* the row and added the delta to it: a call whose UPDATE matched no row never
\* reports game_updated, also when the pair is attached while the call is in
\* flight, so the deltas reported applied are the deltas in the stored score
\* (stated for the pairs of an existing game and an existing player).
C12_SuccessMeansApplied ==
    (/\ UpdateAnswered /\ resp.success
     /\ ~ForeignKeyMissing(resp.req.game_id, resp.req.player_id))
        => /\ resp.before # NoScore
           /\ completed[<<resp.req.game_id, resp.req.player_id>>]
                 + SumDeltas(FramesOn(<<resp.req.game_id, resp.req.player_id>>))
                 = resp.new_score

store == <<players, games, game_players, seq_players, seq_games>>

IsFailure(message) ==
    message \in {"method_not_allowed", "invalid_json",
                 "validation_error: name can't be blank", "internal_server_error"}

FrameKey(h) == <<h.requestData.game_id, h.requestData.player_id>>

\* the step runs the UPDATE of an update-score call: frame h enters inflight
UpdateRan(h) == CopiesIn(h, inflight') = CopiesIn(h, inflight) + 1

\* the step answers the update-score call of frame h
UpdateReturned(h) == CopiesIn(h, inflight') = CopiesIn(h, inflight) - 1

UpdateFrame(h) ==
    /\ players' = players /\ games' = games
    /\ seq_players' = seq_players /\ seq_games' = seq_games
    /\ {r \in game_players' : Key(r) # FrameKey(h)} = {r \in game_players : Key(r) # FrameKey(h)}
    /\ Cardinality({r \in game_players' : Key(r) = FrameKey(h)})
          = Cardinality({r \in game_players : Key(r) = FrameKey(h)})
    /\ h.before = NoScore => game_players' = game_players

StoreFrame ==
    /\ \A h \in BagToSet(inflight') : UpdateRan(h) => UpdateFrame(h)
    /\ \A h \in BagToSet(inflight) :
          UpdateReturned(h) => /\ store' = store
                               /\ IsFailure(resp'.message) => h.before = NoScore
    /\ (resp = NoResponse /\ resp' # NoResponse
          /\ (resp'.route = "/games" \/ IsFailure(resp'.message)))
          => store' = store

\* C13: in every step, the UPDATE of an update-score call changes at most the
\* score of the row of its pair and no other row, player or game; a
\* list-scores call and every call answered with a failure (method_not_allowed,
\* invalid_json, validation error, internal_server_error) leave the store as
\* it was, and an update-score call answered with a failure changed nothing
\* with its UPDATE either.
C13_Frame == [][StoreFrame]_vars

\* an UPDATE has changed the score of one row while the other row kept its own
C13_Witness ==
    /\ Cardinality(game_players) = 2
    /\ \E h \in BagToSet(inflight) :
        /\ h.before # NoScore
        /\ \E r \in game_players : Key(r) = FrameKey(h) /\ r.score # 0
        /\ \E r \in game_players : Key(r) # FrameKey(h) /\ r.score = 0
====
